---- MODULE Spec2Model ----
(***************************************************************************)
(* SplitSmart: the split calculator (utils/split.ts), the per-member       *)
(* balance aggregation of the group screen (calculateMemberExpenses) and   *)
(* the expense operations of services/firebaseService.                     *)
(*                                                                         *)
(* Money is an integer number of thousandths of a currency unit, so one    *)
(* cent is 10 units and the 0.009 tolerance of computeShares is 9 units.   *)
(* A quotient is kept exact until round2 is applied to it.                 *)
(***************************************************************************)
EXTENDS Integers, Sequences, FiniteSets, TLC

VARIABLES
    totalAmount,      \* computeShares argument: [kind, v], kind "nan" or "num"
    participantIds,   \* computeShares argument: sequence of ids, "" is a falsy entry
    split,            \* computeShares argument: NoSplit or [type, allocations]
    result,           \* what the calls returned: a Shares mapping, a validation
                      \* answer, or the mappings of several calls in call order
    pc,               \* "call" before the function ran, then the step reached
    expenses,         \* the group's expenses collection, in document order
    activity          \* number of entries of the group's activity array

vars == <<totalAmount, participantIds, split, result, pc, expenses, activity>>

-----------------------------------------------------------------------------
(* Bounds of the explored inputs *)

MaxAllocs == 2       \* longest split.allocations list
MaxExpenses == 2     \* most expenses stored in the group
MaxIds == 2          \* longest raw participant list, falsy and repeated ids allowed

(* Program constants, in thousandths *)

Cent == 10           \* round2 keeps two decimals: 0.01
Tolerance == 9       \* the 0.009 of the amount branch

Users == {"a", "b", "c"}
NoId == ""           \* undefined / falsy id

-----------------------------------------------------------------------------
(* utils/split.ts *)

\* round2 of the exact quotient p / q (q # 0): Math.round rounds halves up.
Round2Div(p, q) ==
    LET pp == IF q < 0 THEN -p ELSE p
        qq == IF q < 0 THEN -q ELSE q
    IN  Cent * ((2 * pp + Cent * qq) \div (2 * Cent * qq))

Round2(n) == Round2Div(n, 1)

Abs(n) == IF n < 0 THEN -n ELSE n

\* refId: a string id is returned as is, a falsy value gives undefined.
RefId(u) == IF u = "" THEN NoId ELSE u

NaN == [kind |-> "nan", v |-> 0]
Num(n) == [kind |-> "num", v |-> n]

\* Number(totalAmount) || 0
CleanTotal(t) == IF t.kind = "nan" THEN 0 ELSE t.v

\* CleanIds keeping the falsy entries
CleanIdsKeepAll(ids) == ids

\* (participantIds || []).filter(Boolean)
CleanIds(ids) == SelectSeq(ids, LAMBDA x : x # "")

IdSet(ids) == {ids[i] : i \in 1..Len(ids)}

Count(ids, id) == Cardinality({i \in 1..Len(ids) : ids[i] = id})

NoSplit == [type |-> "none", allocations |-> <<>>]

\* the ids that own an entry of map after the allocations were read
AllocIds(allocs) == {RefId(allocs[i].user) : i \in 1..Len(allocs)} \ {NoId}

\* map[id] after the loop: the last allocation of id wins
LastAlloc(allocs, id) ==
    LET i == CHOOSE k \in 1..Len(allocs) :
                /\ RefId(allocs[k].user) = id
                /\ \A j \in (k+1)..Len(allocs) : RefId(allocs[j].user) # id
    IN  allocs[i].value

Clamp(v) == IF v > 0 THEN v ELSE 0

\* the reduce of the percent branch
RECURSIVE PercentSum(_)
PercentSum(allocs) ==
    IF allocs = <<>> THEN 0
    ELSE LET a == allocs[Len(allocs)]
             acc == PercentSum(SubSeq(allocs, 1, Len(allocs) - 1))
         IN  IF RefId(a.user) = NoId THEN acc ELSE acc + a.value

\* the sum accumulated by the forEach of the amount branch
RECURSIVE AmountSum(_)
AmountSum(allocs) ==
    IF allocs = <<>> THEN 0
    ELSE LET a == allocs[Len(allocs)]
             acc == AmountSum(SubSeq(allocs, 1, Len(allocs) - 1))
         IN  IF RefId(a.user) = NoId THEN acc ELSE acc + Clamp(a.value)

\* EqualShares dividing by the length of the list plus the payer
EqualSharesExtra(cleanTotal, ids) ==
    [id \in IdSet(ids) |-> Round2Div(cleanTotal, Len(ids) + 1)]

EqualShares(cleanTotal, ids) ==
    LET n == IF Len(ids) = 0 THEN 1 ELSE Len(ids)
    IN  [id \in IdSet(ids) |-> Round2Div(cleanTotal, n)]

\* PercentShares falling back to an equal split when the percentages sum to 0
PercentSharesEqualFallback(cleanTotal, ids, allocs) ==
    LET percentSum == PercentSum(allocs)
        raw(id) == IF id \in AllocIds(allocs) THEN LastAlloc(allocs, id) ELSE 0
    IN  IF percentSum = 0 THEN EqualShares(cleanTotal, ids)
        ELSE [id \in IdSet(ids) |-> Round2Div(raw(id) * cleanTotal, percentSum)]

PercentShares(cleanTotal, ids, allocs) ==
    LET percentSum == PercentSum(allocs)
        raw(id) == IF id \in AllocIds(allocs) THEN LastAlloc(allocs, id) ELSE 0
    IN  [id \in IdSet(ids) |->
            IF percentSum = 0 THEN Round2(0)
            ELSE Round2Div(raw(id) * cleanTotal, percentSum)]

\* AmountShares that never rescales the allocations to the total
AmountSharesNoRescale(cleanTotal, ids, allocs) ==
    LET sum == AmountSum(allocs)
        fixed(id) == IF id \in AllocIds(allocs) THEN Clamp(LastAlloc(allocs, id)) ELSE 0
        remainder == cleanTotal - sum
        leftovers == SelectSeq(ids, LAMBDA x : x \notin AllocIds(allocs))
        spread == Abs(remainder) > Tolerance /\ Len(leftovers) > 0
    IN  IF spread
        THEN [id \in IdSet(ids) |->
                IF id \in IdSet(leftovers)
                THEN Round2Div(Count(leftovers, id) * remainder, Len(leftovers))
                ELSE Round2(fixed(id))]
        ELSE [id \in IdSet(ids) |-> Round2(fixed(id))]

\* AmountShares spreading the remainder over all participants, not the leftovers
AmountSharesSpreadAll(cleanTotal, ids, allocs) ==
    LET sum == AmountSum(allocs)
        fixed(id) == IF id \in AllocIds(allocs) THEN Clamp(LastAlloc(allocs, id)) ELSE 0
        remainder == cleanTotal - sum
        leftovers == SelectSeq(ids, LAMBDA x : x \notin AllocIds(allocs))
        spread == Abs(remainder) > Tolerance /\ Len(leftovers) > 0
    IN  IF spread
        THEN [id \in IdSet(ids) |->
                IF id \in IdSet(leftovers)
                THEN Round2Div(Count(leftovers, id) * remainder, Len(ids))
                ELSE Round2(fixed(id))]
        ELSE IF Abs(sum - cleanTotal) > Tolerance
        THEN [id \in IdSet(ids) |->
                IF sum = 0 THEN Round2(0) ELSE Round2Div(fixed(id) * cleanTotal, sum)]
        ELSE [id \in IdSet(ids) |-> Round2(fixed(id))]

AmountShares(cleanTotal, ids, allocs) ==
    LET sum == AmountSum(allocs)
        fixed(id) == IF id \in AllocIds(allocs) THEN Clamp(LastAlloc(allocs, id)) ELSE 0
        remainder == cleanTotal - sum
        leftovers == SelectSeq(ids, LAMBDA x : x \notin AllocIds(allocs))
        spread == Abs(remainder) > Tolerance /\ Len(leftovers) > 0
    IN  IF spread
        THEN [id \in IdSet(ids) |->
                IF id \in IdSet(leftovers)
                THEN Round2Div(Count(leftovers, id) * remainder, Len(leftovers))
                ELSE Round2(fixed(id))]
        ELSE IF Abs(sum - cleanTotal) > Tolerance
        THEN [id \in IdSet(ids) |->
                IF sum = 0 THEN Round2(0) ELSE Round2Div(fixed(id) * cleanTotal, sum)]
        ELSE [id \in IdSet(ids) |-> Round2(fixed(id))]

\* ComputeShares reading a split of unknown type as an amount split
ComputeSharesUnknownAsAmount(total, pids, sp) ==
    LET cleanTotal == CleanTotal(total)
        ids == CleanIds(pids)
    IN  IF sp = NoSplit \/ sp.type = "equal" THEN EqualShares(cleanTotal, ids)
        ELSE IF sp.type = "percent" THEN PercentShares(cleanTotal, ids, sp.allocations)
        ELSE AmountShares(cleanTotal, ids, sp.allocations)

ComputeShares(total, pids, sp) ==
    LET cleanTotal == CleanTotal(total)
        ids == CleanIds(pids)
    IN  IF sp = NoSplit \/ sp.type = "equal" THEN EqualShares(cleanTotal, ids)
        ELSE IF sp.type = "percent" THEN PercentShares(cleanTotal, ids, sp.allocations)
        ELSE IF sp.type = "amount" THEN AmountShares(cleanTotal, ids, sp.allocations)
        ELSE EqualShares(cleanTotal, ids)

\* sum of the values of a Shares mapping
RECURSIVE SumOver(_, _)
SumOver(f, S) ==
    IF S = {} THEN 0
    ELSE LET x == CHOOSE y \in S : TRUE IN f[x] + SumOver(f, S \ {x})

SumShares(sh) == SumOver(sh, DOMAIN sh)

-----------------------------------------------------------------------------
(* Inputs of the split calculator *)

SeqsUpTo(S, n) == UNION {[1..k -> S] : k \in 0..n}

TotalValues == {-20, 0, 4, 29, 40}
AllocValues == {-20, 0, 5, 20}

Totals == {NaN} \cup {Num(v) : v \in TotalValues}
\* participant lists as the screens build them: distinct member ids, any order
IdLists == {ids \in SeqsUpTo(Users, Cardinality(Users)) :
                \A i, j \in 1..Len(ids) : ids[i] = ids[j] => i = j}
Allocation == [user : Users, value : AllocValues]
SplitTypes == {"equal", "percent", "amount", "custom"}
Splits == {NoSplit} \cup [type : SplitTypes, allocations : SeqsUpTo(Allocation, MaxAllocs)]

InitShares ==
    /\ totalAmount \in Totals
    /\ participantIds \in IdLists
    /\ split \in Splits
    /\ result = <<>>
    /\ pc = "call"
    /\ expenses = <<>>
    /\ activity = 0

\* one call of computeShares on the chosen input
CallComputeShares ==
    /\ pc = "call"
    /\ result' = ComputeShares(totalAmount, participantIds, split)
    /\ pc' = "done"
    /\ UNCHANGED <<totalAmount, participantIds, split, expenses, activity>>

NextShares == CallComputeShares

SpecShares == InitShares /\ [][NextShares]_vars

\* participant lists as any caller may pass them: a missing list is read as
\* the empty one, entries may be falsy or repeated
RawIds == {NoId, "a", "b"}
RawIdLists == SeqsUpTo(RawIds, MaxIds)
RawTotals == {NaN, Num(-20), Num(29)}

InitSharesRaw ==
    /\ totalAmount \in RawTotals
    /\ participantIds \in RawIdLists
    /\ split \in Splits
    /\ result = <<>>
    /\ pc = "call"
    /\ expenses = <<>>
    /\ activity = 0

SpecSharesRaw == InitSharesRaw /\ [][NextShares]_vars

\* computeShares called on one input, then possibly on another input, then
\* on the first input again; result keeps the mappings returned, in call order
TwiceTotals == {Num(29)}
OtherInputs ==
    {[total |-> Num(40), ids |-> <<"a", "b">>,
      split |-> [type |-> "percent",
                 allocations |-> <<[user |-> "a", value |-> 20], [user |-> "b", value |-> 5]>>]],
     [total |-> Num(4), ids |-> <<"c", "a">>,
      split |-> [type |-> "amount", allocations |-> <<[user |-> "c", value |-> 20]>>]]}

InitTwice ==
    /\ totalAmount \in TwiceTotals
    /\ participantIds \in IdLists
    /\ split \in Splits
    /\ result = <<>>
    /\ pc = "call"
    /\ expenses = <<>>
    /\ activity = 0

FirstCall ==
    /\ pc = "call"
    /\ result' = <<ComputeShares(totalAmount, participantIds, split)>>
    /\ pc' = "first"
    /\ UNCHANGED <<totalAmount, participantIds, split, expenses, activity>>

OtherCall ==
    /\ pc = "first"
    /\ \E other \in OtherInputs :
          result' = Append(result, ComputeShares(other.total, other.ids, other.split))
    /\ pc' = "other"
    /\ UNCHANGED <<totalAmount, participantIds, split, expenses, activity>>

\* SecondCall answering from what the most recent call left behind
SecondCallMemo ==
    /\ pc \in {"first", "other"}
    /\ result' = Append(result, result[Len(result)])
    /\ pc' = "second"
    /\ UNCHANGED <<totalAmount, participantIds, split, expenses, activity>>

SecondCall ==
    /\ pc \in {"first", "other"}
    /\ result' = Append(result, ComputeShares(totalAmount, participantIds, split))
    /\ pc' = "second"
    /\ UNCHANGED <<totalAmount, participantIds, split, expenses, activity>>

NextTwice == FirstCall \/ OtherCall \/ SecondCall

SpecTwice == InitTwice /\ [][NextTwice]_vars

-----------------------------------------------------------------------------
(* validateSplit of utils/split.ts *)

\* the reduce of validateSplit's percent branch: every allocation counts
RECURSIVE ValidatePercentSum(_)
ValidatePercentSum(allocs) ==
    IF allocs = <<>> THEN 0
    ELSE ValidatePercentSum(SubSeq(allocs, 1, Len(allocs) - 1)) + allocs[Len(allocs)].value

\* the reduce of validateSplit's amount branch
RECURSIVE ValidateAmountSum(_)
ValidateAmountSum(allocs) ==
    IF allocs = <<>> THEN 0
    ELSE ValidateAmountSum(SubSeq(allocs, 1, Len(allocs) - 1))
            + Clamp(allocs[Len(allocs)].value)

Valid == [ok |-> TRUE, message |-> ""]
Invalid(msg) == [ok |-> FALSE, message |-> msg]

\* ValidateSplit rejecting an amount split whose amounts sum to 0 as well
ValidateSplitAmountStrict(total, pids, sp) ==
    IF sp = NoSplit \/ sp.type = "equal" THEN Valid
    ELSE IF sp.type = "percent"
    THEN IF ValidatePercentSum(sp.allocations) <= 0
         THEN Invalid("Percentages must sum to > 0") ELSE Valid
    ELSE IF sp.type = "amount"
    THEN IF ValidateAmountSum(sp.allocations) <= 0 THEN Invalid("Invalid amounts") ELSE Valid
    ELSE Valid

ValidateSplit(total, pids, sp) ==
    IF sp = NoSplit \/ sp.type = "equal" THEN Valid
    ELSE IF sp.type = "percent"
    THEN IF ValidatePercentSum(sp.allocations) <= 0
         THEN Invalid("Percentages must sum to > 0") ELSE Valid
    ELSE IF sp.type = "amount"
    THEN IF ValidateAmountSum(sp.allocations) < 0 THEN Invalid("Invalid amounts") ELSE Valid
    ELSE Valid

\* one call of validateSplit on the chosen input
CallValidateSplit ==
    /\ pc = "call"
    /\ result' = ValidateSplit(totalAmount, participantIds, split)
    /\ pc' = "validated"
    /\ UNCHANGED <<totalAmount, participantIds, split, expenses, activity>>

NextValidate == CallValidateSplit

SpecValidate == InitShares /\ [][NextValidate]_vars

-----------------------------------------------------------------------------
(* The group of the screen: roster, permissions, stored expenses *)

Roster == <<"a", "b", "c">>       \* group.members, in stored order
Owner == "a"                       \* group.createdBy
\* group.memberPermissions[uid].canCreateExpenses, as the owner has set it
MemberPermissions == [b |-> FALSE, c |-> FALSE]

\* getPerms(uid).canCreateExpenses
CanCreateExpenses(uid) ==
    uid = Owner \/ (uid \in DOMAIN MemberPermissions /\ MemberPermissions[uid])

ExpenseAmounts == {1000}

\* getUserId of calculateMemberExpenses: a string id, or the id of a reference
GetUserId(u) == IF u = "" THEN NoId ELSE u

\* normalizeSplitForWrite: same type, every allocation's value as a number
NormalizeSplitForWrite(sp) ==
    [type |-> sp.type,
     allocations |-> [i \in 1..Len(sp.allocations) |->
                        [user |-> sp.allocations[i].user, value |-> sp.allocations[i].value]]]

\* ParticipantsOf leaving the payer's entry unpaid
ParticipantsOfAllUnpaid(sharedWith, paidBy) ==
    [i \in 1..Len(sharedWith) |-> [user |-> sharedWith[i], status |-> "unpaid"]]

\* the participants addExpense and markPortionPaid derive from sharedWith
ParticipantsOf(sharedWith, paidBy) ==
    [i \in 1..Len(sharedWith) |->
        [user |-> sharedWith[i],
         status |-> IF sharedWith[i] = paidBy THEN "paid" ELSE "unpaid"]]

\* the document addExpense stores
AddExpenseDoc(amount, paidBy, sharedWith, sp) ==
    [amount |-> amount,
     paidBy |-> paidBy,
     sharedWith |-> sharedWith,
     participants |-> ParticipantsOf(sharedWith, paidBy),
     split |-> IF sp = NoSplit THEN NoSplit ELSE NormalizeSplitForWrite(sp),
     completed |-> FALSE,
     completedBy |-> NoId]

\* a document of an older version of the app: sharedWith and paidBy, no participants
LegacyDoc(amount, paidBy, sharedWith) ==
    [amount |-> amount,
     paidBy |-> paidBy,
     sharedWith |-> sharedWith,
     participants |-> <<>>,
     split |-> NoSplit,
     completed |-> FALSE,
     completedBy |-> NoId]

-----------------------------------------------------------------------------
(* calculateMemberExpenses of the group screen *)

\* participants resolved to {id, status}, entries without an id dropped
ResolveParticipants(expense) ==
    SelectSeq([i \in 1..Len(expense.participants) |->
                  [id |-> GetUserId(expense.participants[i].user),
                   status |-> expense.participants[i].status]],
              LAMBDA p : p.id # NoId)

ParticipantIdsOf(parts) == [i \in 1..Len(parts) |-> parts[i].id]

\* AddAmount storing the latest amount instead of adding it
AddAmountOverwrite(map, key, amt) ==
    [k \in DOMAIN map \cup {key} |-> IF k = key THEN amt ELSE map[k]]

\* map[key] += amt, the entry created on first use
AddAmount(map, key, amt) ==
    [k \in DOMAIN map \cup {key} |->
        IF k = key THEN (IF key \in DOMAIN map THEN map[key] + amt ELSE amt)
        ELSE map[k]]

\* participants.find((p) => p.id === memberId)
FindParticipant(parts, memberId) ==
    LET hits == {i \in 1..Len(parts) : parts[i].id = memberId}
    IN  IF hits = {} THEN 0
        ELSE CHOOSE i \in hits : \A j \in hits : i <= j

\* OwedByAfter counting the participants who already paid as well
RECURSIVE OwedByAfterAnyStatus(_, _, _, _, _)
OwedByAfterAnyStatus(owedBy, parts, k, memberId, shareMap) ==
    IF k = 0 THEN owedBy
    ELSE LET before == OwedByAfterAnyStatus(owedBy, parts, k - 1, memberId, shareMap)
             p == parts[k]
         IN  IF p.id # memberId
             THEN AddAmount(before, p.id, shareMap[p.id])
             ELSE before

\* the forEach over the participants of an expense memberId paid
RECURSIVE OwedByAfter(_, _, _, _, _)
OwedByAfter(owedBy, parts, k, memberId, shareMap) ==
    IF k = 0 THEN owedBy
    ELSE LET before == OwedByAfter(owedBy, parts, k - 1, memberId, shareMap)
             p == parts[k]
         IN  IF p.id # memberId /\ p.status # "paid"
             THEN AddAmount(before, p.id, shareMap[p.id])
             ELSE before

\* ExpenseStep crediting the payer also when the payer is not a participant
ExpenseStepPayerAlways(acc, expense, memberId) ==
    LET parts == ResolveParticipants(expense)
        payerId == GetUserId(expense.paidBy)
        shareMap == ComputeShares(Num(expense.amount), ParticipantIdsOf(parts), expense.split)
        at == FindParticipant(parts, memberId)
    IN  IF payerId = memberId
        THEN [acc EXCEPT !.totalPaid = @ + expense.amount,
                         !.owedBy = OwedByAfter(@, parts, Len(parts), memberId, shareMap)]
        ELSE IF at = 0 THEN acc
        ELSE IF parts[at].status # "paid" /\ payerId # NoId /\ payerId # memberId
        THEN [acc EXCEPT !.totalOwed = @ + shareMap[memberId],
                         !.owedTo = AddAmount(@, payerId, shareMap[memberId])]
        ELSE acc

\* ExpenseStep charging a member's share whether or not the member has paid
ExpenseStepAnyStatus(acc, expense, memberId) ==
    LET parts == ResolveParticipants(expense)
        payerId == GetUserId(expense.paidBy)
        shareMap == ComputeShares(Num(expense.amount), ParticipantIdsOf(parts), expense.split)
        at == FindParticipant(parts, memberId)
    IN  IF at = 0 THEN acc
        ELSE IF payerId = memberId
        THEN [acc EXCEPT !.totalPaid = @ + expense.amount,
                         !.owedBy = OwedByAfter(@, parts, Len(parts), memberId, shareMap)]
        ELSE IF payerId # NoId /\ payerId # memberId
        THEN [acc EXCEPT !.totalOwed = @ + shareMap[memberId],
                         !.owedTo = AddAmount(@, payerId, shareMap[memberId])]
        ELSE acc

\* ExpenseStep leaving out the expenses that are marked complete
ExpenseStepSkipCompleted(acc, expense, memberId) ==
    LET parts == ResolveParticipants(expense)
        payerId == GetUserId(expense.paidBy)
        shareMap == ComputeShares(Num(expense.amount), ParticipantIdsOf(parts), expense.split)
        at == FindParticipant(parts, memberId)
    IN  IF expense.completed THEN acc
        ELSE IF at = 0 THEN acc
        ELSE IF payerId = memberId
        THEN [acc EXCEPT !.totalPaid = @ + expense.amount,
                         !.owedBy = OwedByAfter(@, parts, Len(parts), memberId, shareMap)]
        ELSE IF parts[at].status # "paid" /\ payerId # NoId /\ payerId # memberId
        THEN [acc EXCEPT !.totalOwed = @ + shareMap[memberId],
                         !.owedTo = AddAmount(@, payerId, shareMap[memberId])]
        ELSE acc

\* the body of expenses.forEach for one expense
ExpenseStep(acc, expense, memberId) ==
    LET parts == ResolveParticipants(expense)
        payerId == GetUserId(expense.paidBy)
        shareMap == ComputeShares(Num(expense.amount), ParticipantIdsOf(parts), expense.split)
        at == FindParticipant(parts, memberId)
    IN  IF at = 0 THEN acc
        ELSE IF payerId = memberId
        THEN [acc EXCEPT !.totalPaid = @ + expense.amount,
                         !.owedBy = OwedByAfter(@, parts, Len(parts), memberId, shareMap)]
        ELSE IF parts[at].status # "paid" /\ payerId # NoId /\ payerId # memberId
        THEN [acc EXCEPT !.totalOwed = @ + shareMap[memberId],
                         !.owedTo = AddAmount(@, payerId, shareMap[memberId])]
        ELSE acc

RECURSIVE Accumulate(_, _, _)
Accumulate(exps, k, memberId) ==
    IF k = 0
    THEN [totalOwed |-> 0, totalPaid |-> 0, owedTo |-> <<>>, owedBy |-> <<>>]
    ELSE ExpenseStep(Accumulate(exps, k - 1, memberId), exps[k], memberId)

CalculateMemberExpenses(exps, memberId) ==
    LET acc == Accumulate(exps, Len(exps), memberId)
        totalIsOwed == SumShares(acc.owedBy)
    IN  [totalOwed |-> acc.totalOwed,
         totalPaid |-> acc.totalPaid,
         owedTo |-> acc.owedTo,
         owedBy |-> acc.owedBy,
         totalIsOwed |-> totalIsOwed,
         netBalance |-> totalIsOwed - acc.totalOwed]

-----------------------------------------------------------------------------
(* Operations on the stored expenses *)

\* the member selections of the creation form, in roster order
Selections == {SelectSeq(Roster, LAMBDA m : m \in S) : S \in SUBSET Users \ {{}}}

\* the splits the editor hands to Save for the selected members: equal with
\* zero allocations, or percentages typed per member
TypedPercent == [a |-> 50, b |-> 30, c |-> 20]
SaveSplits(selected) ==
    {[type |-> "equal",
      allocations |-> [i \in 1..Len(selected) |-> [user |-> selected[i], value |-> 0]]],
     [type |-> "percent",
      allocations |-> [i \in 1..Len(selected) |->
                         [user |-> selected[i], value |-> TypedPercent[selected[i]]]]]}

\* Save of the creation form followed by addExpense
SaveExpense(user, selected, amountNum, sp) ==
    /\ Len(expenses) < MaxExpenses
    /\ CanCreateExpenses(user)
    /\ amountNum > 0
    /\ Len(selected) > 0
    /\ LET shareIds == IF user \in IdSet(selected) THEN selected ELSE Append(selected, user)
       IN  expenses' = Append(expenses, AddExpenseDoc(amountNum, user, shareIds, sp))
    /\ activity' = activity + 1
    /\ UNCHANGED <<totalAmount, participantIds, split, result, pc>>

\* the participants markPortionPaid works on: the stored array, or the one
\* derived from sharedWith and paidBy when the array is missing or empty
PortionParticipants(data) ==
    IF Len(data.participants) = 0
    THEN ParticipantsOf(data.sharedWith, data.paidBy)
    ELSE data.participants

\* participants.findIndex by user id, 0 for -1
FindIndex(participants, userId) ==
    LET hits == {i \in 1..Len(participants) : participants[i].user = userId}
    IN  IF hits = {} THEN 0
        ELSE CHOOSE i \in hits : \A j \in hits : i <= j

\* markPortionPaid on the e-th stored expense, up to its write
MarkPortionPaid(e, userId) ==
    /\ e \in 1..Len(expenses)
    /\ LET participants == PortionParticipants(expenses[e])
           idx == FindIndex(participants, userId)
       IN  /\ idx # 0
           /\ participants[idx].status # "paid"
           /\ expenses' = [expenses EXCEPT ![e].participants =
                               [participants EXCEPT ![idx].status = "paid"]]
    /\ activity' = activity + 1
    /\ UNCHANGED <<totalAmount, participantIds, split, result, pc>>

\* MarkExpenseComplete without the check of the payer
MarkExpenseCompleteByAnyone(e, completedByUserId) ==
    /\ e \in 1..Len(expenses)
    /\ ~expenses[e].completed
    /\ expenses' = [expenses EXCEPT ![e].completed = TRUE,
                                    ![e].completedBy = completedByUserId]
    /\ activity' = activity + 1
    /\ UNCHANGED <<totalAmount, participantIds, split, result, pc>>

\* markExpenseComplete on the e-th stored expense; the screen offers it while
\* the expense is not completed
MarkExpenseComplete(e, completedByUserId) ==
    /\ e \in 1..Len(expenses)
    /\ ~expenses[e].completed
    /\ LET payerId == GetUserId(expenses[e].paidBy)
       IN  ~(payerId # NoId /\ payerId # completedByUserId)
    /\ expenses' = [expenses EXCEPT ![e].completed = TRUE,
                                    ![e].completedBy = completedByUserId]
    /\ activity' = activity + 1
    /\ UNCHANGED <<totalAmount, participantIds, split, result, pc>>

\* stored before the form: the payer among sharedWith, or left out of it
LegacyExpenses ==
    {LegacyDoc(1000, "b", <<"a", "b", "c">>), LegacyDoc(1000, "b", <<"a", "c">>)}

InitBalance ==
    /\ expenses \in {<<>>} \cup {<<d>> : d \in LegacyExpenses}
    /\ activity = 1
    /\ totalAmount = Num(0)
    /\ participantIds = <<>>
    /\ split = NoSplit
    /\ result = <<>>
    /\ pc = "idle"

\* a member fills the form and saves; the form keeps the member selected
SubmitExpense ==
    \E user \in Users, selected \in Selections, amountNum \in ExpenseAmounts :
        /\ user \in IdSet(selected)
        /\ \E sp \in SaveSplits(selected) : SaveExpense(user, selected, amountNum, sp)

PayPortion == \E e \in 1..MaxExpenses, userId \in Users : MarkPortionPaid(e, userId)

CompleteExpense == \E e \in 1..MaxExpenses, userId \in Users : MarkExpenseComplete(e, userId)

NextBalance == SubmitExpense \/ PayPortion \/ CompleteExpense

SpecBalance == InitBalance /\ [][NextBalance]_vars

Balance(m) == CalculateMemberExpenses(expenses, m)

\* the percentages a member's field of the editor is left with: cleared to 0
\* or typed
PercentInputs == {0, 50}

\* every split the editor can hand to Save for the selected members: the
\* equal split of its first effect, or a percent split after setType and
\* updateValue on the members' fields
EditorSplits(selected) ==
    {[type |-> "equal",
      allocations |-> [i \in 1..Len(selected) |-> [user |-> selected[i], value |-> 0]]]}
    \cup {[type |-> "percent",
           allocations |-> [i \in 1..Len(selected) |->
                              [user |-> selected[i], value |-> typed[i]]]] :
             typed \in [1..Len(selected) -> PercentInputs]}

\* a member fills the form, edits the split and saves
SubmitEdited ==
    \E user \in Users, selected \in Selections, amountNum \in ExpenseAmounts :
        /\ user \in IdSet(selected)
        /\ \E sp \in EditorSplits(selected) : SaveExpense(user, selected, amountNum, sp)

NextCreate == SubmitEdited

SpecCreate == InitBalance /\ [][NextCreate]_vars

-----------------------------------------------------------------------------
(* markPortionPaid as its steps: getDoc, then updateDoc with the whole        *)
(* participants array. Each member runs one call; pc[u] is the position of    *)
(* u's call and result[u] what it holds between the read and the write.       *)

StoredOnce ==
    LegacyExpenses
    \cup UNION {{AddExpenseDoc(1000, Owner, selected, sp) : sp \in SaveSplits(selected)} :
                 selected \in {x \in Selections : Owner \in IdSet(x)}}

InitConcurrent ==
    /\ expenses \in SeqsUpTo(StoredOnce, MaxExpenses) \ {<<>>}
    /\ activity = 1
    /\ totalAmount = Num(0)
    /\ participantIds = <<>>
    /\ split = NoSplit
    /\ result = [u \in Users |-> <<>>]
    /\ pc = [u \in Users |-> "idle"]

\* getDoc and the computation of the new participants array;
\* a call that throws or returns early ends without a write
PortionRead(e, userId) ==
    /\ pc[userId] = "idle"
    /\ e \in 1..Len(expenses)
    /\ LET participants == PortionParticipants(expenses[e])
           idx == FindIndex(participants, userId)
       IN  /\ idx # 0
           /\ participants[idx].status # "paid"
           /\ result' = [result EXCEPT ![userId] =
                            [e |-> e,
                             participants |-> [participants EXCEPT ![idx].status = "paid"]]]
    /\ pc' = [pc EXCEPT ![userId] = "read"]
    /\ UNCHANGED <<totalAmount, participantIds, split, expenses, activity>>

\* updateDoc(expenseDocRef, { participants }) and the activity entry
PortionWrite(userId) ==
    /\ pc[userId] = "read"
    /\ expenses' = [expenses EXCEPT ![result[userId].e].participants =
                        result[userId].participants]
    /\ activity' = activity + 1
    /\ pc' = [pc EXCEPT ![userId] = "done"]
    /\ UNCHANGED <<totalAmount, participantIds, split, result>>

ReadStep == \E e \in 1..MaxExpenses, userId \in Users : PortionRead(e, userId)

WriteStep == \E userId \in Users : PortionWrite(userId)

NextConcurrent == ReadStep \/ WriteStep

SpecConcurrent == InitConcurrent /\ [][NextConcurrent]_vars

-----------------------------------------------------------------------------
(* The effect of the Group Details screen that loads the group and           *)
(* subscribes to its expenses, and the effect's cleanup. pc.effect is the    *)
(* position of the async function, pc.screen whether the cleanup has run;    *)
(* result.unsubscribe is the effect's variable (assigned or undefined),      *)
(* result.listening whether the onSnapshot listener is attached, result.late *)
(* whether a snapshot reached setExpenses after the cleanup; expenses is the *)
(* screen's expenses state.                                                  *)

Snapshots == SeqsUpTo(StoredOnce, MaxExpenses)

InitListener ==
    /\ pc = [effect |-> "getGroupById", screen |-> "mounted"]
    /\ result = [unsubscribe |-> FALSE, listening |-> FALSE, late |-> FALSE]
    /\ expenses = <<>>
    /\ activity = 1
    /\ totalAmount = Num(0)
    /\ participantIds = <<>>
    /\ split = NoSplit

\* await getGroupById resolves; setGroup, setSelectedMemberIds, setLoading
GroupLoaded ==
    /\ pc.effect = "getGroupById"
    /\ pc' = [pc EXCEPT !.effect = "getGroupExpenses"]
    /\ UNCHANGED <<totalAmount, participantIds, split, result, expenses, activity>>

\* getGroupExpenses attaches the listener with onSnapshot and returns
ListenerAttached ==
    /\ pc.effect = "getGroupExpenses"
    /\ result' = [result EXCEPT !.listening = TRUE]
    /\ pc' = [pc EXCEPT !.effect = "await"]
    /\ UNCHANGED <<totalAmount, participantIds, split, expenses, activity>>

\* getGroupExpenses throws; the catch leaves unsubscribe undefined
SubscribeFailed ==
    /\ pc.effect = "getGroupExpenses"
    /\ pc' = [pc EXCEPT !.effect = "end"]
    /\ UNCHANGED <<totalAmount, participantIds, split, result, expenses, activity>>

\* unsubscribe = await unsubPromise
UnsubscribeAssigned ==
    /\ pc.effect = "await"
    /\ result' = [result EXCEPT !.unsubscribe = TRUE]
    /\ pc' = [pc EXCEPT !.effect = "end"]
    /\ UNCHANGED <<totalAmount, participantIds, split, expenses, activity>>

\* the listener delivers the collection: setExpenses(items)
SnapshotDelivered ==
    /\ result.listening
    /\ \E items \in Snapshots : expenses' = items
    /\ result' = [result EXCEPT !.late = @ \/ pc.screen = "torn"]
    /\ UNCHANGED <<totalAmount, participantIds, split, pc, activity>>

\* the cleanup of the effect: if (unsubscribe) unsubscribe()
Teardown ==
    /\ pc.screen = "mounted"
    /\ pc' = [pc EXCEPT !.screen = "torn"]
    /\ result' = [result EXCEPT !.listening = IF result.unsubscribe THEN FALSE ELSE @]
    /\ UNCHANGED <<totalAmount, participantIds, split, expenses, activity>>

NextListener ==
    \/ GroupLoaded
    \/ ListenerAttached
    \/ SubscribeFailed
    \/ UnsubscribeAssigned
    \/ SnapshotDelivered
    \/ Teardown

SpecListener == InitListener /\ [][NextListener]_vars

-----------------------------------------------------------------------------
(* One session of the creation form with its split editor. participantIds    *)
(* is the form's selectedMemberIds, split the form's split state (NoSplit    *)
(* for undefined), totalAmount the amount typed; percent values are in       *)
(* hundredths of a percent, amounts in thousandths. pc is "form" until Save. *)

FormUser == Owner
FormInputs == {0, 5000}      \* a field cleared to 0, or 50 typed into it

\* the members prop of the editor: group.members filtered by the selection
MembersOf(selected) == SelectSeq(Roster, LAMBDA m : m \in IdSet(selected))

ZeroAllocations(members) ==
    [i \in 1..Len(members) |-> [user |-> members[i], value |-> 0]]

\* the effect of the editor on [members, value]
EditorEffect(members, value) ==
    IF value = NoSplit
    THEN [type |-> "equal", allocations |-> ZeroAllocations(members)]
    ELSE IF Len(members) > 0
    THEN LET setIds == {value.allocations[i].user : i \in 1..Len(value.allocations)}
             missing == SelectSeq(members, LAMBDA m : m \notin setIds)
         IN  [type |-> value.type,
              allocations |-> value.allocations \o ZeroAllocations(missing)]
    ELSE value

\* setType of the editor
SetType(type, members, total) ==
    LET n == Len(members)
        each == IF n = 0 THEN 0
                ELSE IF type = "percent" THEN (2 * 10000 + n) \div (2 * n)
                ELSE IF type = "amount" THEN Round2Div(total, n)
                ELSE 0
    IN  [type |-> type,
         allocations |-> [i \in 1..n |-> [user |-> members[i], value |-> each]]]

\* updateValue of the editor for a finite number typed
UpdateValue(value, memberId, nextVal) ==
    [type |-> value.type,
     allocations |-> [i \in 1..Len(value.allocations) |->
                        IF value.allocations[i].user = memberId
                        THEN [user |-> memberId, value |-> nextVal]
                        ELSE value.allocations[i]]]

InitForm ==
    /\ participantIds = Roster
    /\ split = EditorEffect(MembersOf(Roster), NoSplit)
    /\ totalAmount \in {Num(v) : v \in ExpenseAmounts}
    /\ expenses = <<>>
    /\ activity = 1
    /\ result = <<>>
    /\ pc = "form"

\* a member row is pressed: the current user's row does nothing
FormToggle ==
    /\ pc = "form"
    /\ \E m \in Users \ {FormUser} :
          /\ participantIds' = IF m \in IdSet(participantIds)
                               THEN SelectSeq(participantIds, LAMBDA x : x # m)
                               ELSE Append(participantIds, m)
          /\ split' = EditorEffect(MembersOf(participantIds'), split)
    /\ UNCHANGED <<totalAmount, result, pc, expenses, activity>>

FormSelectAll ==
    /\ pc = "form"
    /\ participantIds' = Roster
    /\ split' = EditorEffect(MembersOf(participantIds'), split)
    /\ UNCHANGED <<totalAmount, result, pc, expenses, activity>>

FormClear ==
    /\ pc = "form"
    /\ participantIds' = <<FormUser>>
    /\ split' = EditorEffect(MembersOf(participantIds'), split)
    /\ UNCHANGED <<totalAmount, result, pc, expenses, activity>>

FormSetType ==
    /\ pc = "form"
    /\ \E type \in {"equal", "percent", "amount"} :
          split' = SetType(type, MembersOf(participantIds), CleanTotal(totalAmount))
    /\ UNCHANGED <<totalAmount, participantIds, result, pc, expenses, activity>>

\* a value is typed into the field of a member; the fields show for a
\* percent or amount split
FormUpdateValue ==
    /\ pc = "form"
    /\ split.type # "equal"
    /\ \E m \in IdSet(MembersOf(participantIds)), v \in FormInputs :
          split' = UpdateValue(split, m, v)
    /\ UNCHANGED <<totalAmount, participantIds, result, pc, expenses, activity>>

\* Save: the checks of the handler, addExpense, and the reset of the form
FormSave ==
    /\ pc = "form"
    /\ CanCreateExpenses(FormUser)
    /\ CleanTotal(totalAmount) > 0
    /\ Len(participantIds) > 0
    /\ LET shareIds == IF FormUser \in IdSet(participantIds) THEN participantIds
                       ELSE Append(participantIds, FormUser)
       IN  expenses' = Append(expenses,
                              AddExpenseDoc(CleanTotal(totalAmount), FormUser, shareIds, split))
    /\ activity' = activity + 1
    /\ split' = NoSplit
    /\ pc' = "saved"
    /\ UNCHANGED <<totalAmount, participantIds, result>>

NextForm ==
    \/ FormToggle
    \/ FormSelectAll
    \/ FormClear
    \/ FormSetType
    \/ FormUpdateValue
    \/ FormSave

SpecForm == InitForm /\ [][NextForm]_vars

-----------------------------------------------------------------------------
(* Single calls of markPortionPaid, from the getDoc to the return or the     *)
(* throw. result is the outcome of the last call and pc its arguments.       *)

NotFound == "Expense not found"
NotParticipant == "User is not a participant of this expense"

\* markPortionPaid that logs the activity on the already-paid path too
PortionCallLogAlways(exps, act, e, userId) ==
    IF e \notin 1..Len(exps)
    THEN [expenses |-> exps, activity |-> act, outcome |-> NotFound]
    ELSE LET participants == PortionParticipants(exps[e])
             idx == FindIndex(participants, userId)
         IN  IF idx = 0
             THEN [expenses |-> exps, activity |-> act, outcome |-> NotParticipant]
             ELSE IF participants[idx].status = "paid"
             THEN [expenses |-> exps, activity |-> act + 1, outcome |-> "returned"]
             ELSE [expenses |-> [exps EXCEPT ![e].participants =
                                    [participants EXCEPT ![idx].status = "paid"]],
                   activity |-> act + 1,
                   outcome |-> "written"]

\* markPortionPaid(groupId, expenseId, userId): the stored expenses and the
\* activity count after the call, and how the call ended
PortionCall(exps, act, e, userId) ==
    IF e \notin 1..Len(exps)
    THEN [expenses |-> exps, activity |-> act, outcome |-> NotFound]
    ELSE LET participants == PortionParticipants(exps[e])
             idx == FindIndex(participants, userId)
         IN  IF idx = 0
             THEN [expenses |-> exps, activity |-> act, outcome |-> NotParticipant]
             ELSE IF participants[idx].status = "paid"
             THEN [expenses |-> exps, activity |-> act, outcome |-> "returned"]
             ELSE [expenses |-> [exps EXCEPT ![e].participants =
                                    [participants EXCEPT ![idx].status = "paid"]],
                   activity |-> act + 1,
                   outcome |-> "written"]

\* the split of an expense plays no part in the call
PortionDocs == {d \in StoredOnce : d.split.type # "percent"}

InitPortion ==
    /\ expenses \in SeqsUpTo(PortionDocs, MaxExpenses)
    /\ activity = 1
    /\ totalAmount = Num(0)
    /\ participantIds = <<>>
    /\ split = NoSplit
    /\ result = "none"
    /\ pc = <<0, NoId>>

\* the id may be that of an expense that is not stored
CallMarkPortionPaid(e, userId) ==
    /\ LET r == PortionCall(expenses, activity, e, userId)
       IN  /\ expenses' = r.expenses
           /\ activity' = r.activity
           /\ result' = r.outcome
    /\ pc' = <<e, userId>>
    /\ UNCHANGED <<totalAmount, participantIds, split>>

NextPortion == \E e \in 1..(MaxExpenses + 1), userId \in Users : CallMarkPortionPaid(e, userId)

SpecPortion == InitPortion /\ [][NextPortion]_vars

-----------------------------------------------------------------------------
(* Properties of computeShares *)

Done == pc = "done"
IsNumber == totalAmount.kind = "num"
T == CleanTotal(totalAmount)
N == Len(participantIds)
Allocs == split.allocations

\* r is x rounded to the cent, halves up, for the exact quotient x = p / q, q > 0
IsRound2Of(r, p, q) ==
    /\ r % Cent = 0
    /\ 2 * p - Cent * q < 2 * q * r
    /\ 2 * q * r <= 2 * p + Cent * q

\* the allocation values as the split records them, added up entry by entry
ValueSum(allocs) == SumOver([i \in 1..Len(allocs) |-> allocs[i].value], 1..Len(allocs))
ClampedSum(allocs) ==
    SumOver([i \in 1..Len(allocs) |-> IF allocs[i].value < 0 THEN 0 ELSE allocs[i].value],
            1..Len(allocs))
Allocated == {Allocs[i].user : i \in 1..Len(Allocs)}
Unallocated == IdSet(participantIds) \ Allocated

\* C1: for an amount split whose clamped allocations sum to at most the total
\* or cover every participant, the shares sum to round2(total) within 0.01.
C1_AmountSumsToTotal ==
    (/\ Done /\ IsNumber /\ T >= 0 /\ split.type = "amount" /\ N >= 1
     /\ \/ ClampedSum(Allocs) <= T
        \/ Unallocated = {})
    => Abs(SumShares(result) - Round2(T)) <= Cent

\* C2: for a percent split whose allocation values sum to a positive number,
\* the shares of the requested participants sum to the total, up to 0.01 of
\* rounding drift per participant.
C2_PercentSumsToTotal ==
    (/\ Done /\ IsNumber /\ T >= 0 /\ split.type = "percent" /\ N >= 1
     /\ ValueSum(Allocs) > 0)
    => Abs(SumShares(result) - T) <= Cent * N

\* C3: for an absent or equal split with n >= 1 distinct participants and a
\* total T >= 0, every share is round2(T / n) and the shares sum to T within
\* 0.01 * n.
C3_EqualShares ==
    (Done /\ IsNumber /\ T >= 0 /\ N >= 1 /\ (split = NoSplit \/ split.type = "equal"))
    => /\ DOMAIN result = IdSet(participantIds)
       /\ \A id \in DOMAIN result : IsRound2Of(result[id], T, N)
       /\ Abs(SumShares(result) - T) <= Cent * N

C3_Witness ==
    /\ Done /\ split.type = "equal" /\ N = 3 /\ totalAmount = Num(29)
    /\ result = [id \in Users |-> 10]

\* C8: in an amount split with an unallocated participant and a total that
\* differs from the allocated sum by more than 0.009, every unallocated
\* participant gets round2((total - allocatedSum) / k), k the number of
\* unallocated participants, and every allocated participant gets round2 of
\* their own clamped allocation.
C8_RemainderSpread ==
    (/\ Done /\ split.type = "amount"
     /\ Unallocated # {}
     /\ Abs(T - ClampedSum(Allocs)) > Tolerance)
    => /\ DOMAIN result = IdSet(participantIds)
       /\ \A id \in Unallocated :
            IsRound2Of(result[id], T - ClampedSum(Allocs), Cardinality(Unallocated))
       /\ \A id \in IdSet(participantIds) \ Unallocated :
            IsRound2Of(result[id], Clamp(LastAlloc(Allocs, id)), 1)

C8_Witness ==
    /\ Done /\ totalAmount = Num(29) /\ participantIds = <<"a", "b", "c">>
    /\ split = [type |-> "amount", allocations |-> <<[user |-> "a", value |-> 5]>>]
    /\ result = [id \in Users |-> 10]

\* C9: a percent split whose allocation values sum to exactly 0 gives every
\* participant the share 0, whatever the total.
C9_ZeroPercent ==
    (Done /\ split.type = "percent" /\ ValueSum(Allocs) = 0)
    => /\ DOMAIN result = IdSet(participantIds)
       /\ \A id \in DOMAIN result : result[id] = 0

C9_Witness ==
    /\ Done /\ split.type = "percent" /\ totalAmount = Num(40) /\ N = 2
    /\ Len(Allocs) = 2 /\ Allocs[1].value = 20 /\ Allocs[2].value = -20
    /\ \A id \in DOMAIN result : result[id] = 0

\* C10: for a negative totalAmount computeShares returns the mapping it
\* returns for totalAmount = 0.
C10_NegativeTotalAsZero ==
    (Done /\ IsNumber /\ totalAmount.v < 0)
    => result = ComputeShares(Num(0), participantIds, split)

\* C11: for a total T >= 0, every share computeShares returns is
\* non-negative, whatever the participants and the split.
C11_NonNegativeShares ==
    (Done /\ IsNumber /\ T >= 0) => \A id \in DOMAIN result : result[id] >= 0

\* C14: when participantIds is empty or holds only falsy entries, computeShares
\* returns the empty mapping, for every total and every split.
C14_NoParticipants ==
    (Done /\ \A i \in 1..Len(participantIds) : participantIds[i] = NoId)
    => DOMAIN result = {}

C14_Witness ==
    /\ Done /\ participantIds = <<NoId, NoId>> /\ totalAmount = Num(29)
    /\ split.type = "amount" /\ Len(Allocs) = 2
    /\ DOMAIN result = {}

\* C15: for a split whose type is none of equal, percent, amount, computeShares
\* returns the mapping it returns for an equal split with the same total and
\* participants, with the same allocations or with none.
C15_UnknownTypeAsEqual ==
    (Done /\ split # NoSplit /\ split.type \notin {"equal", "percent", "amount"})
    => /\ result = ComputeShares(totalAmount, participantIds,
                                 [type |-> "equal", allocations |-> Allocs])
       /\ result = ComputeShares(totalAmount, participantIds,
                                 [type |-> "equal", allocations |-> <<>>])

C15_Witness ==
    /\ Done /\ split.type = "custom" /\ totalAmount = Num(29) /\ N = 3
    /\ Len(Allocs) = 2 /\ Allocs[1].value = 20 /\ Allocs[2].value = 5
    /\ result = [id \in Users |-> 10]

OfParticipants(sp, ids) ==
    [type |-> sp.type,
     allocations |-> SelectSeq(sp.allocations, LAMBDA a : a.user \in IdSet(ids))]

\* C20: in a percent split, for a total T >= 0, the allocations of users who
\* are not among the participants change no participant's share: the result
\* is the one of the split without them.
C20_PercentIgnoresOutsiders ==
    (Done /\ IsNumber /\ T >= 0 /\ split.type = "percent")
    => result = ComputeShares(totalAmount, participantIds, OfParticipants(split, participantIds))

\* the distinct non-empty ids of the participant list
Present == IdSet(participantIds) \ {NoId}

\* C21: for an absent or equal split and a total T >= 0, each distinct
\* participant gets round2(T / d), d the number of distinct non-empty ids,
\* and the shares sum to T within 0.01 * d.
C21_EqualOverDistinctIds ==
    (/\ Done /\ IsNumber /\ T >= 0 /\ Present # {}
     /\ (split = NoSplit \/ split.type = "equal"))
    => /\ DOMAIN result = Present
       /\ \A id \in Present : IsRound2Of(result[id], T, Cardinality(Present))
       /\ Abs(SumShares(result) - T) <= Cent * Cardinality(Present)

\* C22: in an amount split in which every participant has an allocation, with
\* S the sum of the clamped allocation values: when S differs from the total
\* by more than 0.009, each share is round2(clampedAllocation * total / S),
\* and 0 when S = 0; otherwise each share is round2 of the clamped allocation.
C22_AmountRescale ==
    (Done /\ split.type = "amount" /\ Unallocated = {})
    => /\ DOMAIN result = IdSet(participantIds)
       /\ \A id \in IdSet(participantIds) :
            LET c == Clamp(LastAlloc(Allocs, id))
                S == ClampedSum(Allocs)
            IN  IF Abs(S - T) > Tolerance
                THEN IF S = 0 THEN result[id] = 0 ELSE IsRound2Of(result[id], c * T, S)
                ELSE IsRound2Of(result[id], c, 1)

C22_Witness ==
    /\ Done /\ split.type = "amount" /\ totalAmount = Num(29)
    /\ participantIds = <<"a", "b">>
    /\ Allocs = <<[user |-> "a", value |-> 20], [user |-> "b", value |-> 20]>>
    /\ result = [id \in {"a", "b"} |-> 10]

Validated == pc = "validated"

\* C12: validateSplit answers ok = false, with a message, exactly when the
\* split is a percent split whose allocation values sum to 0 or less; an
\* absent, equal, amount or unknown split is answered ok = true.
C12_ValidateSplit ==
    Validated =>
        /\ result.ok = ~(split.type = "percent" /\ ValueSum(Allocs) <= 0)
        /\ ~result.ok => result.message # ""
        /\ (split = NoSplit \/ split.type \in {"equal", "amount", "custom"}) => result.ok

C12_Witness ==
    /\ Validated /\ split.type = "percent" /\ Len(Allocs) = 2
    /\ Allocs[1].value = 20 /\ Allocs[2].value = -20
    /\ result = [ok |-> FALSE, message |-> "Percentages must sum to > 0"]

-----------------------------------------------------------------------------
(* Properties of the balances *)

ExpenseIndexes == 1..Len(expenses)
Entry(map, k) == IF k \in DOMAIN map THEN map[k] ELSE 0

\* the stored participants of a document, and those who have not paid
PartSet(d) == {d.participants[k].user : k \in 1..Len(d.participants)}
UnpaidSet(d) ==
    {d.participants[k].user :
        k \in {j \in 1..Len(d.participants) : d.participants[j].status # "paid"}}
SharesOf(d) ==
    ComputeShares(Num(d.amount),
                  [k \in 1..Len(d.participants) |-> d.participants[k].user], d.split)

\* <<i, m, x>>: member m still has x to pay on the i-th expense
Dues(exps) ==
    {<<i, m, IF m \in UnpaidSet(exps[i]) THEN SharesOf(exps[i])[m] ELSE 0>> :
        i \in 1..Len(exps), m \in Users}

RECURSIVE SumDues(_)
SumDues(S) ==
    IF S = {} THEN 0
    ELSE LET t == CHOOSE x \in S : TRUE IN t[3] + SumDues(S \ {t})

RECURSIVE SumAmounts(_, _)
SumAmounts(exps, I) ==
    IF I = {} THEN 0
    ELSE LET i == CHOOSE x \in I : TRUE IN exps[i].amount + SumAmounts(exps, I \ {i})

\* C4: totalOwed is the sum of m's share over exactly the expenses where m is
\* a participant, is not the payer and has not paid; owedTo[p] is that sum
\* over the expenses paid by p.
C4_TotalOwed ==
    LET dues == Dues(expenses)
    IN  \A m \in Users :
            LET b == Balance(m)
            IN  /\ b.totalOwed =
                      SumDues({t \in dues : t[2] = m /\ expenses[t[1]].paidBy # m})
                /\ \A p \in Users :
                      Entry(b.owedTo, p) =
                         SumDues({t \in dues : /\ t[2] = m /\ p # m
                                               /\ expenses[t[1]].paidBy = p})

\* c owes a on an expense a created and owes b on a converted legacy expense
C4_Witness ==
    /\ Len(expenses) = 2
    /\ LET b == Balance("c")
       IN  /\ DOMAIN b.owedTo = {"a", "b"}
           /\ b.owedTo["b"] > b.owedTo["a"]
           /\ b.owedTo["a"] > 0
           /\ b.totalOwed = b.owedTo["a"] + b.owedTo["b"]

PaidBy(exps, m) == {i \in 1..Len(exps) : exps[i].paidBy = m}
PaidByParticipant(exps, m) == {i \in PaidBy(exps, m) : m \in PartSet(exps[i])}

\* C5 as stated: totalPaid is the sum of the amounts of the expenses m paid,
\* owedBy[q] the sum over those expenses of the share of every other unpaid
\* participant q, and m is in neither its owedBy nor its owedTo.
C5_TotalPaidOfAllPaid ==
    LET dues == Dues(expenses)
    IN  \A m \in Users :
            LET b == Balance(m)
                paid == PaidBy(expenses, m)
            IN  /\ b.totalPaid = SumAmounts(expenses, paid)
                /\ \A q \in Users \ {m} :
                      Entry(b.owedBy, q) = SumDues({t \in dues : t[2] = q /\ t[1] \in paid})
                /\ m \notin DOMAIN b.owedBy
                /\ m \notin DOMAIN b.owedTo

\* C5 amended: the same sums taken over the expenses m paid and in which m is
\* among the resolved participants.
C5_TotalPaid ==
    LET dues == Dues(expenses)
    IN  \A m \in Users :
            LET b == Balance(m)
                paid == PaidByParticipant(expenses, m)
            IN  /\ b.totalPaid = SumAmounts(expenses, paid)
                /\ \A q \in Users \ {m} :
                      Entry(b.owedBy, q) = SumDues({t \in dues : t[2] = q /\ t[1] \in paid})
                /\ m \notin DOMAIN b.owedBy
                /\ m \notin DOMAIN b.owedTo

\* b paid a converted legacy expense it takes no part in, a paid an expense
\* it shares with b and c
C5_Witness ==
    /\ Len(expenses) = 2
    /\ PaidBy(expenses, "b") = {1}
    /\ PaidByParticipant(expenses, "b") = {}
    /\ PartSet(expenses[1]) # {}
    /\ Balance("b").totalPaid = 0
    /\ LET b == Balance("a")
       IN  b.totalPaid = 1000 /\ DOMAIN b.owedBy = {"b", "c"} /\ b.owedBy["b"] > b.owedBy["c"]

\* C6: netBalance is the sum of owedBy minus totalOwed, and totalOwed is the
\* sum of owedTo.
C6_NetBalance ==
    \A m \in Users :
        LET b == Balance(m)
            isOwed == SumShares(b.owedBy)
            owes == SumShares(b.owedTo)
        IN  /\ b.netBalance = isOwed - b.totalOwed
            /\ b.totalOwed = owes
            /\ b.netBalance = isOwed - owes

\* b owes a on two expenses, and a is owed more than one expense's amount
C6_Witness ==
    /\ Len(expenses) = 2
    /\ expenses[1].paidBy = "a" /\ expenses[2].paidBy = "a"
    /\ LET b == Balance("b")
       IN  b.owedTo = [p \in {"a"} |-> b.totalOwed] /\ b.totalOwed > 500
    /\ Balance("a").netBalance > 1000

\* the balances before and after the write of markPortionPaid(e, u)
PortionSettled(e, u) ==
    LET payer == expenses[e].paidBy
        share == SharesOf(expenses'[e])[u]
        before(m) == CalculateMemberExpenses(expenses, m)
        after(m) == CalculateMemberExpenses(expenses', m)
    IN  /\ after(u).totalOwed = before(u).totalOwed - share
        /\ Entry(after(u).owedTo, payer) = Entry(before(u).owedTo, payer) - share
        /\ Entry(after(payer).owedBy, u) = Entry(before(payer).owedBy, u) - share
        /\ \A m \in Users, k \in Users :
              /\ m # u => after(m).totalOwed = before(m).totalOwed
              /\ (m # u \/ k # payer) => Entry(after(m).owedTo, k) = Entry(before(m).owedTo, k)
              /\ (m # payer \/ k # u) => Entry(after(m).owedBy, k) = Entry(before(m).owedBy, k)

\* C7: when markPortionPaid(e, u) has written for a participant u who is not
\* the payer, u's totalOwed and owedTo[payer] are lower by u's share of e, the
\* payer's owedBy[u] is lower by the same amount, and no other totalOwed,
\* owedTo or owedBy entry differs.
C7_PaidPortionLeavesBalances ==
    [][\A e \in 1..MaxExpenses, u \in Users :
          (MarkPortionPaid(e, u) /\ expenses[e].paidBy # u) => PortionSettled(e, u)]_vars

\* the expense list with every expense that stores no participants replaced
\* by its normalized form: one participant per sharedWith id, the payer paid
Normalized(exps) ==
    [i \in 1..Len(exps) |->
        IF Len(exps[i].participants) = 0
        THEN [exps[i] EXCEPT !.participants =
                 [k \in 1..Len(exps[i].sharedWith) |->
                     [user |-> exps[i].sharedWith[k],
                      status |-> IF exps[i].sharedWith[k] = exps[i].paidBy
                                 THEN "paid" ELSE "unpaid"]]]
        ELSE exps[i]]

\* C16: the balance of every member is the one computed from the expense
\* list in which the legacy expenses are replaced by their normalized forms.
C16_LegacyAsNormalized ==
    \A m \in Users :
        CalculateMemberExpenses(expenses, m) = CalculateMemberExpenses(Normalized(expenses), m)

\* C17: in every reachable state, an expense is completed only by its payer:
\* a completed expense records its payer as completedBy, and an expense that
\* is not completed records nobody.
C17_CompletedByPayer ==
    \A i \in 1..Len(expenses) :
        IF expenses[i].completed
        THEN expenses[i].completedBy = expenses[i].paidBy
        ELSE expenses[i].completedBy = NoId

\* the legacy expense completed by b and a created one completed by a while
\* a participant has not paid
C17_Witness ==
    /\ Len(expenses) = 2
    /\ expenses[1].completed /\ expenses[1].completedBy = "b"
    /\ expenses[2].completed /\ expenses[2].completedBy = "a"
    /\ \E k \in 1..Len(expenses[2].participants) : expenses[2].participants[k].status = "unpaid"

\* the expenses in which m is among the stored participants
WithMember(exps, m) == SelectSeq(exps, LAMBDA d : m \in PartSet(d))

\* C23: the balance of every member is the balance computed from only the
\* expenses in which the member is among the participants: every other
\* expense adds nothing to totalPaid, totalOwed, owedTo or owedBy, also when
\* the member paid it.
C23_NonParticipantSkipped ==
    \A m \in Users :
        CalculateMemberExpenses(expenses, m)
            = CalculateMemberExpenses(WithMember(expenses, m), m)

\* b paid the first expense without taking part in it and owes a share of
\* the second one
C23_Witness ==
    /\ Len(expenses) = 2
    /\ expenses[1].paidBy = "b" /\ PartSet(expenses[1]) = {"a", "c"}
    /\ expenses[2].paidBy = "a" /\ "b" \in UnpaidSet(expenses[2])
    /\ LET b == Balance("b")
       IN  b.totalPaid = 0 /\ b.owedBy = <<>> /\ b.totalOwed > 0

\* C24: in every reachable state, an expense with completed = true has every
\* participant in status paid.
C24_CompletedMeansAllPaid ==
    \A i \in 1..Len(expenses) :
        expenses[i].completed =>
            \A k \in 1..Len(expenses[i].participants) :
                expenses[i].participants[k].status = "paid"

\* C27: for any two distinct members A and B, what A's balance reports in
\* owedTo[B] is what B's balance reports in owedBy[A], an absent entry
\* counting as 0.
C27_SymmetricDebts ==
    LET bal == [m \in Users |-> Balance(m)]
    IN  \A A \in Users, B \in Users :
            A # B => Entry(bal[A].owedTo, B) = Entry(bal[B].owedBy, A)

\* C30: markExpenseComplete leaves the balance of every member as it was;
\* an expense completed while a participant is unpaid goes on counting that
\* participant's share in totalOwed, owedTo and the payer's owedBy.
C30_CompleteLeavesBalances ==
    [][CompleteExpense =>
          \A m \in Users :
              CalculateMemberExpenses(expenses', m) = CalculateMemberExpenses(expenses, m)]_vars

\* a completed expense whose unpaid participant m still owes the share to
\* the payer, who still reports it in owedBy
C30_Witness ==
    \E i \in 1..Len(expenses), m \in Users :
        /\ expenses[i].completed
        /\ m \in UnpaidSet(expenses[i])
        /\ Len(expenses) = 1
        /\ LET bm == Balance(m)
               bp == Balance(expenses[i].paidBy)
           IN  /\ bm.totalOwed > 0
               /\ Entry(bm.owedTo, expenses[i].paidBy) = bm.totalOwed
               /\ Entry(bp.owedBy, m) = bm.totalOwed

-----------------------------------------------------------------------------
(* Properties of the creation flow *)

\* C13: every stored expense carries a split that validateSplit accepts for
\* the expense's amount and participants.
C13_StoredSplitsValid ==
    \A i \in 1..Len(expenses) :
        ValidateSplit(Num(expenses[i].amount), expenses[i].sharedWith, expenses[i].split).ok

\* d is an expense as addExpense creates it through the creation screen
AsCreated(d) ==
    /\ Len(d.participants) = Len(d.sharedWith)
    /\ \A k \in 1..Len(d.sharedWith) :
          /\ d.participants[k].user = d.sharedWith[k]
          /\ d.participants[k].status = "paid" <=> d.sharedWith[k] = d.paidBy
          /\ d.participants[k].status \in {"paid", "unpaid"}
    /\ \A id \in {d.sharedWith[k] : k \in 1..Len(d.sharedWith)} :
          Cardinality({k \in 1..Len(d.participants) : d.participants[k].user = id}) = 1
    /\ \E k \in 1..Len(d.participants) : d.participants[k].user = d.paidBy
    /\ ~d.completed

\* C18: every step that stores a new expense stores it with one participant
\* entry per sharedWith id, the payer's entry paid and every other unpaid,
\* completed = false, and the payer among the participants.
C18_CreatedExpense ==
    [][Len(expenses') = Len(expenses) + 1 => AsCreated(expenses'[Len(expenses')])]_vars

\* a created the second expense for all three members; nothing has touched it
C18_Witness ==
    /\ Len(expenses) = 2
    /\ expenses[2].paidBy = "a"
    /\ expenses[2].participants =
          <<[user |-> "a", status |-> "paid"], [user |-> "b", status |-> "unpaid"],
            [user |-> "c", status |-> "unpaid"]>>
    /\ ~expenses[2].completed

-----------------------------------------------------------------------------
(* Properties of concurrent markPortionPaid calls *)

\* C25: once the markPortionPaid call of a member has completed, the member's
\* status on that expense is paid, in every later state and for every
\* interleaving of the steps of the other members' calls.
C25_PaidStaysPaid ==
    \A u \in Users :
        pc[u] = "done" =>
            \E k \in 1..Len(expenses[result[u].e].participants) :
                /\ expenses[result[u].e].participants[k].user = u
                /\ expenses[result[u].e].participants[k].status = "paid"

-----------------------------------------------------------------------------
(* Properties of the expenses listener *)

\* C26: after the teardown of the screen, once the effect's async function
\* has ended, no listener is attached, and no snapshot has updated the
\* screen's state after the teardown.
C26_ListenerDetached ==
    /\ (pc.screen = "torn" /\ pc.effect = "end") => ~result.listening
    /\ ~result.late

-----------------------------------------------------------------------------
(* Properties of the creation form *)

\* C28: the split stored by Save has exactly one allocation per id of the
\* stored sharedWith list, and no allocation for anybody else.
C28_OneAllocationPerParticipant ==
    pc = "saved" =>
        LET d == expenses[Len(expenses)]
            allocs == d.split.allocations
        IN  /\ {allocs[i].user : i \in 1..Len(allocs)} = IdSet(d.sharedWith)
            /\ Len(allocs) = Len(d.sharedWith)

-----------------------------------------------------------------------------
(* Properties of single markPortionPaid calls *)

\* the participants of the e-th expense as the call sees them
CallParticipants(e) == Normalized(expenses)[e].participants
IsParticipant(e, u) ==
    /\ e \in 1..Len(expenses)
    /\ \E k \in 1..Len(CallParticipants(e)) : CallParticipants(e)[k].user = u
AlreadyPaid(e, u) ==
    /\ e \in 1..Len(expenses)
    /\ \E k \in 1..Len(CallParticipants(e)) :
          /\ CallParticipants(e)[k].user = u
          /\ CallParticipants(e)[k].status = "paid"

\* C29: a markPortionPaid(e, u) call that does not apply changes no stored
\* state: for a missing expense or a user who is not a participant it
\* raises an error and writes nothing, and for a status that is already
\* paid it returns without writing the expense or adding an activity entry.
C29_NoWriteWhenNotApplicable ==
    [][\A e \in 1..(MaxExpenses + 1), u \in Users :
          CallMarkPortionPaid(e, u) =>
              /\ ~IsParticipant(e, u) =>
                    /\ result' \in {NotFound, NotParticipant}
                    /\ expenses' = expenses
                    /\ activity' = activity
              /\ AlreadyPaid(e, u) =>
                    /\ result' = "returned"
                    /\ expenses' = expenses
                    /\ activity' = activity]_vars

\* a second call for a portion that an earlier call has written as paid
C29_Witness ==
    /\ result = "returned"
    /\ activity > 1
    /\ AlreadyPaid(pc[1], pc[2])
    /\ pc[2] # expenses[pc[1]].paidBy

====
